---- MODULE Spec2Model ----
(***************************************************************************)
(* A model of the tracing core of dd-trace-cpp: the Span handle            *)
(* (src/datadog/span.cpp), the TraceSegment it reports to                  *)
(* (src/datadog/trace_segment.h) and the MessagePack writer                *)
(* (src/msgpack.h), and the parser of the Agent's URL                      *)
(* (src/datadog/http_client.cpp).                                          *)
(*                                                                         *)
(* Four specifications share the variables:                                *)
(*   Spec      threads creating, moving, tagging, injecting and destroying *)
(*             Span handles of one segment;                                *)
(*   SpecTags  one thread applying the tag operations to one span;         *)
(*   SpecPack  a sequence of pack_* calls on one buffer;                   *)
(*   SpecUrl   calls of HTTPClient::URL::parse.                            *)
(***************************************************************************)
EXTENDS Integers, Sequences, FiniteSets, TLC

VARIABLES
  spans,               \* TraceSegment::spans_, the SpanData in registration order
  num_finished_spans,  \* TraceSegment::num_finished_spans_
  sampling_decision,   \* TraceSegment::sampling_decision_ (<<>> is nullopt)
  mutex,               \* TraceSegment::mutex_: 0 when free, else the holding thread
  handles,             \* every Span object ever constructed
  pc,                  \* per thread: where it is in the call it is running
  cur,                 \* per thread: the handle the call runs on (0 when idle)
  pending,             \* per thread: the SpanData create_child has built (<<>> when none)
  collector,           \* the batches Collector::send has received
  injected,            \* what the last TraceSegment::inject wrote (<<>> before any)
  next_span_id,        \* the id generate_span_id_() returns next
  notified,            \* per span: number of span_finished calls made for it
  fresh_override,      \* override_sampling_priority(2) ran while no decision existed
  lookup,              \* the last lookup_tag call: <<>> or <<[name, result]>>
  buffer,              \* the msgpack output buffer
  packed,              \* the values packed so far, oldest first
  call,                \* the last pack_* call: <<>> or <<[op, arg, pre]>>
  err,                 \* the exception the last pack_* call threw (<<>> when none)
  parsed               \* the last HTTPClient::URL::parse call: <<>> or <<[input, result]>>

vars == <<spans, num_finished_spans, sampling_decision, mutex, handles, pc, cur,
          pending, collector, injected, next_span_id, notified, fresh_override,
          lookup, buffer, packed, call, err, parsed>>

segVars == <<spans, num_finished_spans, sampling_decision, mutex, handles, pc,
             cur, pending, collector, injected, next_span_id, notified,
             fresh_override>>

packVars == <<buffer, packed, call, err>>

urlVars == <<parsed>>

(***************************************************************************)
(* Bounds                                                                  *)
(***************************************************************************)
MaxSpans == 2
MaxHandles == 3
MaxCalls == 2

Threads == {1, 2}

(***************************************************************************)
(* Characters and tag names.  A string is the sequence of its bytes.       *)
(***************************************************************************)
NUL == 0
DD_PREFIX == <<95, 100, 100, 46>>            \* "_dd."

KeyA      == <<97>>                          \* "a"
KeyEmpty  == <<>>                            \* ""
KeyDd     == <<95, 100, 100>>                \* "_dd"
KeyDdDot  == <<95, 100, 100, 46>>            \* "_dd."
KeyDdX    == <<95, 100, 100, 46, 120>>       \* "_dd.x"
KeyXDd    == <<120, 95, 100, 100, 46>>       \* "x_dd."
KeyDdNul  == <<95, 100, 100, 46, 0>>         \* "_dd.\0", a string_view of size 5

\* The storage behind the string literal a prefix views: its bytes and the
\* terminating NUL the compiler appends.
LiteralStorage(prefix) == prefix \o <<NUL>>

\* std::mismatch(first1, last1, first2): the number of positions advanced
\* before the ranges differ or the first range ends.  first2 has no end of
\* its own; past the literal's NUL the bytes read are indeterminate, and the
\* count is beyond the prefix's end whatever they are, so the walk stops.
RECURSIVE mismatch(_, _, _)
mismatch(subject, storage, i) ==
  IF i = Len(subject) THEN i
  ELSE IF i >= Len(storage) THEN i + 1
  ELSE IF subject[i + 1] # storage[i + 1] THEN i
  ELSE mismatch(subject, storage, i + 1)

starts_with_exact(subject, prefix) ==
  /\ Len(prefix) <= Len(subject)
  /\ SubSeq(subject, 1, Len(prefix)) = prefix

starts_with(subject, prefix) ==
  IF Len(prefix) > Len(subject) THEN FALSE
  ELSE mismatch(subject, LiteralStorage(prefix), 0) = Len(prefix)

is_internal_tag(tag_name) == starts_with(tag_name, DD_PREFIX)

(***************************************************************************)
(* std::unordered_map<std::string, std::string> as a function whose domain *)
(* is the set of keys present.                                             *)
(***************************************************************************)
insert_or_assign(tags, name, value) ==
  [k \in (DOMAIN tags) \cup {name} |-> IF k = name THEN value ELSE tags[k]]

erase(tags, name) == [k \in (DOMAIN tags) \ {name} |-> tags[k]]

NoTags == [k \in {} |-> 0]

\* Span::lookup_tag: <<>> is nullopt.
lookup_tag(data, name) ==
  IF is_internal_tag(name) THEN <<>>
  ELSE IF name \notin DOMAIN data.tags THEN <<>>
  ELSE <<data.tags[name]>>

\* Span::set_tag, as the new value of *data_.
set_tag(data, name, value) ==
  IF ~is_internal_tag(name)
    THEN [data EXCEPT !.tags = insert_or_assign(data.tags, name, value)]
    ELSE data

\* Span::remove_tag, as the new value of *data_.
remove_tag(data, name) ==
  IF ~is_internal_tag(name)
    THEN [data EXCEPT !.tags = erase(data.tags, name)]
    ELSE data

KeyErrorMsg == <<101, 114, 114, 111, 114, 46, 109, 115, 103>>   \* "error.msg"

\* Span::set_error(std::string_view message), as the new value of *data_.
set_error_message(data, message) ==
  [data EXCEPT !.error = TRUE,
               !.tags = insert_or_assign(data.tags, KeyErrorMsg, message)]

\* Span::set_error(bool) without the erase of "error.msg".
set_error_bool_keep(data, is_error) ==
  [data EXCEPT !.error = is_error]

\* Span::set_error(bool is_error), as the new value of *data_.
set_error_bool(data, is_error) ==
  IF ~is_error
    THEN [data EXCEPT !.error = is_error,
                      !.tags = erase(data.tags, KeyErrorMsg)]
    ELSE [data EXCEPT !.error = is_error]

(***************************************************************************)
(* SpanData, Span handles, sampling decisions                              *)
(***************************************************************************)
StartTicks == {1}       \* the ticks clock_() returns when a span starts
ClockTicks == {4}       \* the ticks clock_() returns when a span is destroyed
EndTimes == {3}         \* the arguments given to set_end_time

SpanData(trace_id, span_id, parent_id, start) ==
  [trace_id |-> trace_id, span_id |-> span_id, parent_id |-> parent_id,
   start |-> start, duration |-> 0, error |-> FALSE, tags |-> NoTags]

\* Span::Span: a handle on spans_[data] that shares the segment.
Span(data) ==
  [trace_segment |-> TRUE, data |-> data, end_time |-> <<>>, st |-> "live"]

Decision(priority, mechanism, origin) ==
  [priority |-> priority, mechanism |-> mechanism, origin |-> origin]

ExtractedDecision == Decision(1, "default", "extracted")
UserPriorities == {-1, 2}
SamplerDecisions ==
  {Decision(1, "agent_rate", "local"), Decision(0, "rule", "local")}

Busy(h) == \E t \in Threads : cur[t] = h
Usable(h) ==
  /\ h \in 1..Len(handles)
  /\ handles[h].st = "live"
  /\ handles[h].trace_segment
  /\ ~Busy(h)


(***************************************************************************)
(* TraceSegment's sampling decision.  The definitions of                   *)
(* trace_segment.cpp are not part of the sources at hand; these follow the *)
(* documented behaviour of the operations.                                 *)
(***************************************************************************)
\* A make_sampling_decision_if_null that asks the sampler every time.
make_sampling_decision_always(decision, sampled) == <<sampled>>

\* make_sampling_decision_if_null: ask the sampler only when there is no
\* decision yet.
make_sampling_decision_if_null(decision, sampled) ==
  IF decision = <<>> THEN <<sampled>> ELSE decision

\* override_sampling_priority: set {priority, manual} unless a user-made
\* decision with a different value already exists.
override_sampling_priority(decision, priority) ==
  IF /\ decision # <<>>
     /\ decision[1].mechanism = "manual"
     /\ decision[1].priority # priority
    THEN decision
    ELSE <<Decision(priority, "manual", "local")>>

(***************************************************************************)
(* Steps of the threads.  Code that runs under the segment's mutex, from   *)
(* the lock_guard to its release, is one step that requires the mutex to   *)
(* be free; visit_spans, which runs a caller's visitor under the mutex,    *)
(* holds it from one step to the next.  Code that runs without the mutex   *)
(* is a step whatever the mutex's state.                                   *)
(***************************************************************************)
NumPending == Cardinality({t \in Threads : pending[t] # <<>>})

Return(t) ==
  /\ pc' = [pc EXCEPT ![t] = "idle"]
  /\ cur' = [cur EXCEPT ![t] = 0]

\* Span::~Span without the test for a moved-from handle.
Span_dtor_nocheck(t, h) ==
  /\ pc[t] = "idle"
  /\ h \in 1..Len(handles)
  /\ handles[h].st = "live"
  /\ ~Busy(h)
  /\ IF FALSE
       THEN /\ handles' = [handles EXCEPT ![h].st = "destroyed"]
            /\ UNCHANGED <<spans, pc, cur>>
       ELSE /\ handles' = [handles EXCEPT ![h].st = "destroying",
                                            ![h].end_time = <<>>]
            /\ \E now \in ClockTicks :
                 LET d == handles[h].data
                 IN spans' = [spans EXCEPT ![d].duration =
                                IF handles[h].end_time # <<>>
                                  THEN handles[h].end_time[1] - spans[d].start
                                  ELSE now - spans[d].start]
            /\ pc' = [pc EXCEPT ![t] = "span_finished"]
            /\ cur' = [cur EXCEPT ![t] = h]
  /\ UNCHANGED <<num_finished_spans, sampling_decision, mutex, pending,
                 collector, injected, next_span_id, notified, fresh_override,
                 lookup>>
  /\ UNCHANGED packVars
  /\ UNCHANGED urlVars

\* Span::~Span returning after the first branch of the duration, without
\* the call of span_finished.
Span_dtor_skip(t, h) ==
  /\ pc[t] = "idle"
  /\ h \in 1..Len(handles)
  /\ handles[h].st = "live"
  /\ ~Busy(h)
  /\ IF ~handles[h].trace_segment
       THEN /\ handles' = [handles EXCEPT ![h].st = "destroyed"]
            /\ UNCHANGED <<spans, pc, cur>>
       ELSE /\ handles' = [handles EXCEPT ![h].st =
                                IF handles[h].end_time # <<>>
                                  THEN "destroyed" ELSE "destroying",
                                            ![h].end_time = <<>>]
            /\ \E now \in ClockTicks :
                 LET d == handles[h].data
                 IN spans' = [spans EXCEPT ![d].duration =
                                IF handles[h].end_time # <<>>
                                  THEN handles[h].end_time[1] - spans[d].start
                                  ELSE now - spans[d].start]
            /\ IF handles[h].end_time # <<>>
                 THEN UNCHANGED <<pc, cur>>
                 ELSE /\ pc' = [pc EXCEPT ![t] = "span_finished"]
                      /\ cur' = [cur EXCEPT ![t] = h]
  /\ UNCHANGED <<num_finished_spans, sampling_decision, mutex, pending,
                 collector, injected, next_span_id, notified, fresh_override,
                 lookup>>
  /\ UNCHANGED packVars
  /\ UNCHANGED urlVars

\* Span::~Span reading the clock whether or not end_time_ is set.
Span_dtor_clock(t, h) ==
  /\ pc[t] = "idle"
  /\ h \in 1..Len(handles)
  /\ handles[h].st = "live"
  /\ ~Busy(h)
  /\ IF ~handles[h].trace_segment
       THEN /\ handles' = [handles EXCEPT ![h].st = "destroyed"]
            /\ UNCHANGED <<spans, pc, cur>>
       ELSE /\ handles' = [handles EXCEPT ![h].st = "destroying",
                                            ![h].end_time = <<>>]
            /\ \E now \in ClockTicks :
                 LET d == handles[h].data
                 IN spans' = [spans EXCEPT ![d].duration =
                                now - spans[d].start]
            /\ pc' = [pc EXCEPT ![t] = "span_finished"]
            /\ cur' = [cur EXCEPT ![t] = h]
  /\ UNCHANGED <<num_finished_spans, sampling_decision, mutex, pending,
                 collector, injected, next_span_id, notified, fresh_override,
                 lookup>>
  /\ UNCHANGED packVars
  /\ UNCHANGED urlVars

\* Span::~Span up to the call of span_finished: a moved-from handle returns
\* at once; any other writes the duration through data_, without the mutex,
\* and goes on to TraceSegment::span_finished.
Span_dtor(t, h) ==
  /\ pc[t] = "idle"
  /\ h \in 1..Len(handles)
  /\ handles[h].st = "live"
  /\ ~Busy(h)
  /\ IF ~handles[h].trace_segment
       THEN /\ handles' = [handles EXCEPT ![h].st = "destroyed"]
            /\ UNCHANGED <<spans, pc, cur>>
       ELSE /\ handles' = [handles EXCEPT ![h].st = "destroying",
                                            ![h].end_time = <<>>]
            /\ \E now \in ClockTicks :
                 LET d == handles[h].data
                 IN spans' = [spans EXCEPT ![d].duration =
                                IF handles[h].end_time # <<>>
                                  THEN handles[h].end_time[1] - spans[d].start
                                  ELSE now - spans[d].start]
            /\ pc' = [pc EXCEPT ![t] = "span_finished"]
            /\ cur' = [cur EXCEPT ![t] = h]
  /\ UNCHANGED <<num_finished_spans, sampling_decision, mutex, pending,
                 collector, injected, next_span_id, notified, fresh_override,
                 lookup>>
  /\ UNCHANGED packVars
  /\ UNCHANGED urlVars

\* TraceSegment::span_finished, under the mutex: count the span; when every
\* registered span is finished, ensure a sampling decision and go on to hand
\* the spans to the collector, outside the mutex.
span_finished(t) ==
  /\ pc[t] = "span_finished"
  /\ mutex = 0
  /\ num_finished_spans' = num_finished_spans + 1
  /\ notified' = [notified EXCEPT ![handles[cur[t]].data] = @ + 1]
  /\ IF num_finished_spans + 1 = Len(spans)
       THEN /\ \E sampled \in SamplerDecisions :
                 sampling_decision' =
                   make_sampling_decision_if_null(sampling_decision, sampled)
            /\ pc' = [pc EXCEPT ![t] = "send"]
            /\ UNCHANGED <<handles, cur>>
       ELSE /\ handles' = [handles EXCEPT ![cur[t]].st = "destroyed"]
            /\ Return(t)
            /\ UNCHANGED sampling_decision
  /\ UNCHANGED <<spans, mutex, pending, collector, injected, next_span_id,
                 fresh_override, lookup>>
  /\ UNCHANGED packVars
  /\ UNCHANGED urlVars

\* The end of the finalizing span_finished: Collector::send receives the
\* segment's spans, and the destructor returns.
collector_send(t) ==
  /\ pc[t] = "send"
  /\ collector' = Append(collector, spans)
  /\ handles' = [handles EXCEPT ![cur[t]].st = "destroyed"]
  /\ Return(t)
  /\ UNCHANGED <<spans, num_finished_spans, sampling_decision, mutex, pending,
                 injected, next_span_id, notified, fresh_override, lookup>>
  /\ UNCHANGED packVars
  /\ UNCHANGED urlVars

\* Span::create_child giving the child the parent's parent_id.
create_child_parent_of_parent(t, h) ==
  /\ pc[t] = "idle"
  /\ Usable(h)
  /\ Len(spans) + NumPending < MaxSpans
  /\ Len(handles) + NumPending < MaxHandles
  /\ \E start \in StartTicks :
       pending' = [pending EXCEPT ![t] =
         <<SpanData(spans[handles[h].data].trace_id, next_span_id,
                    spans[handles[h].data].parent_id, start)>>]
  /\ next_span_id' = next_span_id + 1
  /\ pc' = [pc EXCEPT ![t] = "register_span"]
  /\ cur' = [cur EXCEPT ![t] = h]
  /\ UNCHANGED <<spans, num_finished_spans, sampling_decision, mutex, handles,
                 collector, injected, notified, fresh_override, lookup>>
  /\ UNCHANGED packVars
  /\ UNCHANGED urlVars

\* Span::create_child, lines 63-67: build the child's SpanData from the
\* parent's ids and a generated span id.
create_child(t, h) ==
  /\ pc[t] = "idle"
  /\ Usable(h)
  /\ Len(spans) + NumPending < MaxSpans
  /\ Len(handles) + NumPending < MaxHandles
  /\ \E start \in StartTicks :
       pending' = [pending EXCEPT ![t] =
         <<SpanData(spans[handles[h].data].trace_id, next_span_id,
                    spans[handles[h].data].span_id, start)>>]
  /\ next_span_id' = next_span_id + 1
  /\ pc' = [pc EXCEPT ![t] = "register_span"]
  /\ cur' = [cur EXCEPT ![t] = h]
  /\ UNCHANGED <<spans, num_finished_spans, sampling_decision, mutex, handles,
                 collector, injected, notified, fresh_override, lookup>>
  /\ UNCHANGED packVars
  /\ UNCHANGED urlVars

\* TraceSegment::register_span under the mutex, then Span::create_child line
\* 71: the span is appended and the handle on it is returned (constructing
\* the handle touches nothing shared).
register_span(t) ==
  /\ pc[t] = "register_span"
  /\ mutex = 0
  /\ spans' = Append(spans, pending[t][1])
  /\ notified' = Append(notified, 0)
  /\ handles' = Append(handles, Span(Len(spans) + 1))
  /\ pending' = [pending EXCEPT ![t] = <<>>]
  /\ Return(t)
  /\ UNCHANGED <<num_finished_spans, sampling_decision, mutex, collector,
                 injected, next_span_id, fresh_override, lookup>>
  /\ UNCHANGED packVars
  /\ UNCHANGED urlVars

\* Span's move constructor: the new handle takes the segment pointer, data_
\* and end_time_; the source keeps no segment pointer.  (What the source's
\* end_time_ holds afterwards is never read: its destructor returns at the
\* first test.)
Span_move(t, h) ==
  /\ pc[t] = "idle"
  /\ h \in 1..Len(handles)
  /\ handles[h].st = "live"
  /\ ~Busy(h)
  /\ Len(handles) + NumPending < MaxHandles
  /\ handles' = Append([handles EXCEPT ![h].trace_segment = FALSE,
                                      ![h].end_time = <<>>], handles[h])
  /\ UNCHANGED <<spans, num_finished_spans, sampling_decision, mutex, pc, cur,
                 pending, collector, injected, next_span_id, notified,
                 fresh_override, lookup>>
  /\ UNCHANGED packVars
  /\ UNCHANGED urlVars

\* Span::set_end_time
set_end_time(t, h, end_time) ==
  /\ pc[t] = "idle"
  /\ Usable(h)
  /\ handles' = [handles EXCEPT ![h].end_time = <<end_time>>]
  /\ UNCHANGED <<spans, num_finished_spans, sampling_decision, mutex, pc, cur,
                 pending, collector, injected, next_span_id, notified,
                 fresh_override, lookup>>
  /\ UNCHANGED packVars
  /\ UNCHANGED urlVars

\* Span::inject -> TraceSegment::inject(writer, *data_), under the mutex:
\* ensure a sampling decision, then write the span's id and the decision's
\* priority.
inject(t, h) ==
  /\ pc[t] = "idle"
  /\ Usable(h)
  /\ mutex = 0
  /\ \E sampled \in SamplerDecisions :
       sampling_decision' =
         make_sampling_decision_if_null(sampling_decision, sampled)
  /\ injected' = <<[priority |-> sampling_decision'[1].priority,
                    after_fresh_override |-> fresh_override]>>
  /\ UNCHANGED <<spans, num_finished_spans, mutex, handles, pc, cur, pending,
                 collector, next_span_id, notified, fresh_override, lookup>>
  /\ UNCHANGED packVars
  /\ UNCHANGED urlVars

\* span.trace_segment().override_sampling_priority(priority), under the mutex.
override(t, h, priority) ==
  /\ pc[t] = "idle"
  /\ Usable(h)
  /\ mutex = 0
  /\ sampling_decision' =
       override_sampling_priority(sampling_decision, priority)
  /\ fresh_override' =
       (fresh_override \/ (sampling_decision = <<>> /\ priority = 2))
  /\ UNCHANGED <<spans, num_finished_spans, mutex, handles, pc, cur, pending,
                 collector, injected, next_span_id, notified, lookup>>
  /\ UNCHANGED packVars
  /\ UNCHANGED urlVars

\* TraceSegment::visit_spans, line 90: take the mutex; the visitor then reads
\* spans_.
visit_spans(t, h) ==
  /\ pc[t] = "idle"
  /\ Usable(h)
  /\ mutex = 0
  /\ mutex' = t
  /\ pc' = [pc EXCEPT ![t] = "visit_spans"]
  /\ cur' = [cur EXCEPT ![t] = h]
  /\ UNCHANGED <<spans, num_finished_spans, sampling_decision, handles,
                 pending, collector, injected, next_span_id, notified,
                 fresh_override, lookup>>
  /\ UNCHANGED packVars
  /\ UNCHANGED urlVars

\* TraceSegment::visit_spans, line 92: the visitor has returned and the
\* lock_guard releases the mutex.
visit_spans_return(t) ==
  /\ pc[t] = "visit_spans"
  /\ mutex = t
  /\ mutex' = 0
  /\ Return(t)
  /\ UNCHANGED <<spans, num_finished_spans, sampling_decision, handles,
                 pending, collector, injected, next_span_id, notified,
                 fresh_override, lookup>>
  /\ UNCHANGED packVars
  /\ UNCHANGED urlVars

SegKeys == {KeyA}
SegValues == {1}

\* Span::set_tag called by a thread of the segment: data_->tags is written
\* without the mutex.
Span_set_tag(t, h, name, value) ==
  /\ pc[t] = "idle"
  /\ Usable(h)
  /\ spans' = [spans EXCEPT ![handles[h].data] = set_tag(@, name, value)]
  /\ UNCHANGED <<num_finished_spans, sampling_decision, mutex, handles, pc,
                 cur, pending, collector, injected, next_span_id, notified,
                 fresh_override, lookup>>
  /\ UNCHANGED packVars
  /\ UNCHANGED urlVars

(***************************************************************************)
(* The segment after construction: the local root is registered and one    *)
(* handle refers to it; the decision is absent, or the one extracted from  *)
(* the incoming request.                                                   *)
(***************************************************************************)
\* the SpanData of a locally started root: its span id is the trace id
LocalRoots == {SpanData(1, 1, 0, start) : start \in StartTicks}

PackIdle ==
  /\ buffer = <<>>
  /\ packed = <<>>
  /\ call = <<>>
  /\ err = <<>>

Init ==
  /\ \E local_root \in LocalRoots : spans = <<local_root>>
  /\ num_finished_spans = 0
  /\ sampling_decision \in {<<>>, <<ExtractedDecision>>}
  /\ mutex = 0
  /\ handles = <<Span(1)>>
  /\ pc = [t \in Threads |-> "idle"]
  /\ cur = [t \in Threads |-> 0]
  /\ pending = [t \in Threads |-> <<>>]
  /\ collector = <<>>
  /\ injected = <<>>
  /\ next_span_id = 2
  /\ notified = <<0>>
  /\ fresh_override = FALSE
  /\ lookup = <<>>
  /\ PackIdle
  /\ parsed = <<>>

Next ==
  \/ \E t \in Threads, h \in 1..MaxHandles : Span_dtor(t, h)
  \/ \E t \in Threads : span_finished(t)
  \/ \E t \in Threads : collector_send(t)
  \/ \E t \in Threads, h \in 1..MaxHandles : create_child(t, h)
  \/ \E t \in Threads : register_span(t)
  \/ \E t \in Threads, h \in 1..MaxHandles : Span_move(t, h)
  \/ \E t \in Threads, h \in 1..MaxHandles, e \in EndTimes : set_end_time(t, h, e)
  \/ \E t \in Threads, h \in 1..MaxHandles : inject(t, h)
  \/ \E t \in Threads, h \in 1..MaxHandles, p \in UserPriorities : override(t, h, p)
  \/ \E t \in Threads, h \in 1..MaxHandles : visit_spans(t, h)
  \/ \E t \in Threads : visit_spans_return(t)
  \/ \E t \in Threads, h \in 1..MaxHandles, k \in SegKeys, v \in SegValues :
       Span_set_tag(t, h, k, v)

Spec == Init /\ [][Next]_vars

(***************************************************************************)
(* SpecTags: one thread calling set_tag, remove_tag and lookup_tag on the  *)
(* root span, whose tags may already hold entries the library wrote under  *)
(* reserved names.                                                         *)
(***************************************************************************)
TagKeys == {KeyA, KeyEmpty, KeyDd, KeyDdDot, KeyDdX, KeyXDd, KeyDdNul}
TagValues == {1, 2}
LibraryTags == {[k \in S |-> 9] : S \in SUBSET {KeyDdDot, KeyDdX}}

\* Span::remove_tag called by a thread: data_->tags is written without the
\* mutex.
Span_remove_tag(t, h, name) ==
  /\ pc[t] = "idle"
  /\ Usable(h)
  /\ spans' = [spans EXCEPT ![handles[h].data] = remove_tag(@, name)]
  /\ UNCHANGED <<num_finished_spans, sampling_decision, mutex, handles, pc,
                 cur, pending, collector, injected, next_span_id, notified,
                 fresh_override, lookup>>
  /\ UNCHANGED packVars
  /\ UNCHANGED urlVars

\* Span::lookup_tag called by a thread; the call and its result are recorded.
Span_lookup_tag(t, h, name) ==
  /\ pc[t] = "idle"
  /\ Usable(h)
  /\ lookup' = <<[name |-> name,
                  result |-> lookup_tag(spans[handles[h].data], name)]>>
  /\ UNCHANGED segVars
  /\ UNCHANGED packVars
  /\ UNCHANGED urlVars

ErrorMessages == {3, 4}

\* Span::set_error(message) called by a thread: *data_ is written without
\* the mutex.
Span_set_error_message(t, h, message) ==
  /\ pc[t] = "idle"
  /\ Usable(h)
  /\ spans' = [spans EXCEPT ![handles[h].data] = set_error_message(@, message)]
  /\ UNCHANGED <<num_finished_spans, sampling_decision, mutex, handles, pc,
                 cur, pending, collector, injected, next_span_id, notified,
                 fresh_override, lookup>>
  /\ UNCHANGED packVars
  /\ UNCHANGED urlVars

\* Span::set_error(bool) called by a thread: *data_ is written without the
\* mutex.
Span_set_error_bool(t, h, is_error) ==
  /\ pc[t] = "idle"
  /\ Usable(h)
  /\ spans' = [spans EXCEPT ![handles[h].data] = set_error_bool(@, is_error)]
  /\ UNCHANGED <<num_finished_spans, sampling_decision, mutex, handles, pc,
                 cur, pending, collector, injected, next_span_id, notified,
                 fresh_override, lookup>>
  /\ UNCHANGED packVars
  /\ UNCHANGED urlVars

InitTags ==
  /\ \E local_root \in LocalRoots, tags \in LibraryTags :
       spans = <<[local_root EXCEPT !.tags = tags]>>
  /\ num_finished_spans = 0
  /\ sampling_decision = <<>>
  /\ mutex = 0
  /\ handles = <<Span(1)>>
  /\ pc = [t \in Threads |-> "idle"]
  /\ cur = [t \in Threads |-> 0]
  /\ pending = [t \in Threads |-> <<>>]
  /\ collector = <<>>
  /\ injected = <<>>
  /\ next_span_id = 2
  /\ notified = <<0>>
  /\ fresh_override = FALSE
  /\ lookup = <<>>
  /\ PackIdle
  /\ parsed = <<>>

NextTags ==
  \/ \E k \in TagKeys, v \in TagValues : Span_set_tag(1, 1, k, v)
  \/ \E k \in TagKeys : Span_remove_tag(1, 1, k)
  \/ \E k \in TagKeys : Span_lookup_tag(1, 1, k)
  \/ \E m \in ErrorMessages : Span_set_error_message(1, 1, m)
  \/ \E b \in BOOLEAN : Span_set_error_bool(1, 1, b)

SpecTags == InitTags /\ [][NextTags]_vars

\* The entries of a tag map whose key begins with "_dd.".
ReservedEntries(tags) ==
  {<<k, tags[k]>> : k \in {x \in DOMAIN tags : starts_with_exact(x, DD_PREFIX)}}

C5_Act == ReservedEntries(spans'[1].tags) = ReservedEntries(spans[1].tags)

C5_Inv ==
  (lookup # <<>> /\ starts_with_exact(lookup[1].name, DD_PREFIX))
    => lookup[1].result = <<>>

\* C5: set_tag and remove_tag leave the entries whose key begins with "_dd."
\* as they were, and lookup_tag returns nothing for a key beginning with
\* "_dd.".
C5_ReservedTagsUntouched == []C5_Inv /\ [][C5_Act]_vars

\* The entries of a tag map under the names other than "error.msg".
OtherTags(tags) == {<<k, tags[k]>> : k \in (DOMAIN tags) \ {KeyErrorMsg}}

HasErrorMsg(data) == KeyErrorMsg \in DOMAIN data.tags

C13_Inv == HasErrorMsg(spans[1]) => spans[1].error

C13_Act ==
  /\ \A m \in ErrorMessages :
       Span_set_error_message(1, 1, m) =>
         /\ spans'[1].error
         /\ HasErrorMsg(spans'[1]) /\ spans'[1].tags[KeyErrorMsg] = m
         /\ OtherTags(spans'[1].tags) = OtherTags(spans[1].tags)
  /\ Span_set_error_bool(1, 1, FALSE) =>
       /\ ~spans'[1].error
       /\ ~HasErrorMsg(spans'[1])
       /\ OtherTags(spans'[1].tags) = OtherTags(spans[1].tags)
  /\ Span_set_error_bool(1, 1, TRUE) =>
       /\ spans'[1].error
       /\ spans'[1].tags = spans[1].tags

\* C13: set_error(message) sets error and stores the message under
\* "error.msg"; set_error(false) clears error and removes "error.msg";
\* set_error(true) sets error and leaves the tags as they were; no call
\* changes another tag, and whenever "error.msg" is present error is true.
C13_ErrorAndMessage == []C13_Inv /\ [][C13_Act]_vars

C13_Witness ==
  /\ spans[1].error
  /\ HasErrorMsg(spans[1]) /\ spans[1].tags[KeyErrorMsg] = 4
  /\ KeyA \in DOMAIN spans[1].tags
  /\ KeyDdX \in DOMAIN spans[1].tags

(***************************************************************************)
(* 64-bit machine words.  A word is <<l0, l1, l2, l3>>, four 16-bit limbs,  *)
(* least significant first: std::uint64_t and std::size_t as they are, and  *)
(* std::int64_t in two's complement.                                       *)
(***************************************************************************)
Limb == 65536
Zero == <<0, 0, 0, 0>>
One == <<1, 0, 0, 0>>

\* The word of a constant the source writes as a C++ int, sign-extended.
FromInt(n) ==
  IF n >= 0 THEN <<n % Limb, n \div Limb, 0, 0>>
  ELSE <<n % Limb, (n \div Limb) % Limb, Limb - 1, Limb - 1>>

\* a < b and a <= b on unsigned words
RECURSIVE ULessFrom(_, _, _)
ULessFrom(a, b, i) ==
  IF i = 0 THEN FALSE
  ELSE IF a[i] # b[i] THEN a[i] < b[i]
  ELSE ULessFrom(a, b, i - 1)

ULess(a, b) == ULessFrom(a, b, 4)
ULeq(a, b) == a = b \/ ULess(a, b)

\* the sign bit of a std::int64_t
IsNegative(a) == a[4] >= Limb \div 2

\* a < b and a >= b on std::int64_t
SLess(a, b) ==
  IF IsNegative(a) # IsNegative(b) THEN IsNegative(a) ELSE ULess(a, b)
SGeq(a, b) == ~SLess(a, b)

\* a + b and a - b modulo 2^64
Add(a, b) ==
  LET s1 == a[1] + b[1]
      s2 == a[2] + b[2] + s1 \div Limb
      s3 == a[3] + b[3] + s2 \div Limb
      s4 == a[4] + b[4] + s3 \div Limb
  IN <<s1 % Limb, s2 % Limb, s3 % Limb, s4 % Limb>>

Sub(a, b) ==
  LET d1 == a[1] - b[1]
      d2 == a[2] - b[2] + d1 \div Limb
      d3 == a[3] - b[3] + d2 \div Limb
      d4 == a[4] - b[4] + d3 \div Limb
  IN <<d1 % Limb, d2 % Limb, d3 % Limb, d4 % Limb>>

\* (value >> (8 * k)) & 0xFF
ShiftMaskByte(value, k) == (value[(k \div 2) + 1] \div (256 ^ (k % 2))) % 256

\* static_cast to an unsigned or signed type of `size` bytes, as the bits
\* kept (the low 8 * size bits).
Cast(value, size) ==
  [i \in 1..4 |->
     IF 2 * i <= size THEN value[i]
     ELSE IF 2 * i - 1 <= size THEN value[i] % 256
     ELSE 0]

\* static_cast<std::uint8_t>(value), static_cast<char>(value): one byte
Low8(value) == value[1] % 256

\* a | b on bytes
RECURSIVE BitOr(_, _)
BitOr(a, b) ==
  IF a = 0 THEN b
  ELSE IF b = 0 THEN a
  ELSE 2 * BitOr(a \div 2, b \div 2) + (IF a % 2 = 1 \/ b % 2 = 1 THEN 1 ELSE 0)

\* std::numeric_limits<T>::min() and ::max()
INT8_MIN == FromInt(-128)
INT16_MIN == FromInt(-32768)
INT32_MIN == FromInt(-2147483647 - 1)
INT64_MIN == <<0, 0, 0, 32768>>
UINT8_MAX == FromInt(255)
UINT16_MAX == FromInt(65535)
UINT32_MAX == <<65535, 65535, 0, 0>>
UINT64_MAX == <<65535, 65535, 65535, 65535>>

(***************************************************************************)
(* Byte strings.  A byte string (the buffer, a range given to pack_str or  *)
(* pack_bin) is a sequence of runs [fill, count]: `count` bytes of value   *)
(* `fill`.  A single byte is a run of one; only the long test ranges are   *)
(* longer runs.                                                            *)
(***************************************************************************)
B(byte) == [fill |-> byte, count |-> One]
Run(byte, count) == [fill |-> byte, count |-> count]

\* std::distance(std::begin(range), std::end(range))
RECURSIVE distance(_)
distance(range) ==
  IF range = <<>> THEN Zero ELSE Add(Head(range).count, distance(Tail(range)))

\* buffer.push_back(c)
push_back(buf, c) == Append(buf, B(c % 256))

\* push: buffer.insert(buffer.end(), std::begin(range), std::end(range))
push(buf, range) == buf \o range

\* push_number_big_endian without the reversal of the bytes.
push_number_little_endian(buf, integer, size) ==
  buf \o [i \in 1..size |-> B(ShiftMaskByte(integer, i - 1))]

\* push_number_big_endian for an Integer of `size` bytes: byte i of the
\* output is (value >> (8 * ((size - 1) - i))) & 0xFF.
push_number_big_endian(buf, integer, size) ==
  buf \o [i \in 1..size |-> B(ShiftMaskByte(integer, (size - 1) - (i - 1)))]

(***************************************************************************)
(* enum pack_type                                                          *)
(***************************************************************************)
FIX_MAP == 128
FIX_ARRAY == 144
FIX_STR == 160
NIL == 192
FALSE_ == 194
TRUE_ == 195
BIN8 == 196
BIN16 == 197
BIN32 == 198
DOUBLE == 203
UINT8 == 204
UINT16 == 205
UINT32 == 206
UINT64 == 207
INT8 == 208
INT16 == 209
INT32 == 210
INT64 == 211
STR8 == 217
STR16 == 218
STR32 == 219
ARRAY16 == 220
ARRAY32 == 221
MAP16 == 222
MAP32 == 223
NEGATIVE_FIXNUM == 224

(***************************************************************************)
(* The pack functions, as the buffer they leave.  pack_str, pack_bin,      *)
(* pack_array and pack_map may throw: they yield [buf, thrown], thrown     *)
(* being <<>> or <<the exception's message>>.                              *)
(***************************************************************************)
Digit0 == 48     \* '0'

\* value / 10 and value % 10 by long division
DivMod10(value) ==
  LET c4 == value[4]
      c3 == (c4 % 10) * Limb + value[3]
      c2 == (c3 % 10) * Limb + value[2]
      c1 == (c2 % 10) * Limb + value[1]
  IN [quot |-> <<c1 \div 10, c2 \div 10, c3 \div 10, c4 \div 10>>,
      rem |-> c1 % 10]

\* std::to_string(std::size_t): the decimal digits, as characters
RECURSIVE to_string(_)
to_string(value) ==
  LET dm == DivMod10(value)
  IN IF dm.quot = Zero THEN <<Digit0 + dm.rem>>
     ELSE Append(to_string(dm.quot), Digit0 + dm.rem)

\* make_overflow_message.  The literal pieces are kept as they are; `actual`
\* goes through std::to_string; `message += max` has a std::size_t on its
\* right, which std::string::operator+= takes as one char.
make_overflow_message(type, actual, max) ==
  [head |-> "Cannot msgpack encode ",
   type |-> type,
   of_size |-> " of size ",
   actual |-> to_string(actual),
   exceeds |-> ", which exceeds the protocol maximum of ",
   max |-> <<Low8(max)>>,
   tail |-> "."]

Returned(buf) == [buf |-> buf, thrown |-> <<>>]
Thrown(buf, message) == [buf |-> buf, thrown |-> <<message>>]

pack_nil(buf) == push_back(buf, NIL)

pack_negative(buf, value) ==
  IF SGeq(value, FromInt(-32))
    THEN push_back(buf, BitOr(NEGATIVE_FIXNUM, Low8(Add(value, FromInt(32)))))
  ELSE IF SGeq(value, INT8_MIN)
    THEN push_back(push_back(buf, INT8), Low8(value))
  ELSE IF SGeq(value, INT16_MIN)
    THEN push_number_big_endian(push_back(buf, INT16), Cast(value, 2), 2)
  ELSE IF SGeq(value, INT32_MIN)
    THEN push_number_big_endian(push_back(buf, INT32), Cast(value, 4), 4)
  ELSE IF SGeq(value, INT64_MIN)
    THEN push_number_big_endian(push_back(buf, INT64), Cast(value, 8), 8)
  ELSE buf

\* pack_nonnegative with the first test widened to a whole byte.
pack_nonnegative_wide_fixnum(buf, value) ==
  IF ULeq(value, UINT8_MAX)
    THEN push_back(buf, Low8(value))
  ELSE IF ULeq(value, UINT16_MAX)
    THEN push_number_big_endian(push_back(buf, UINT16), Cast(value, 2), 2)
  ELSE IF ULeq(value, UINT32_MAX)
    THEN push_number_big_endian(push_back(buf, UINT32), Cast(value, 4), 4)
  ELSE push_number_big_endian(push_back(buf, UINT64), Cast(value, 8), 8)

pack_nonnegative(buf, value) ==
  IF ULeq(value, FromInt(127))
    THEN push_back(buf, Low8(value))
  ELSE IF ULeq(value, UINT8_MAX)
    THEN push_back(push_back(buf, UINT8), Low8(value))
  ELSE IF ULeq(value, UINT16_MAX)
    THEN push_number_big_endian(push_back(buf, UINT16), Cast(value, 2), 2)
  ELSE IF ULeq(value, UINT32_MAX)
    THEN push_number_big_endian(push_back(buf, UINT32), Cast(value, 4), 4)
  ELSE IF ULeq(value, UINT64_MAX)
    THEN push_number_big_endian(push_back(buf, UINT64), Cast(value, 8), 8)
  ELSE buf

\* pack_integer for T = std::int64_t (value.signed) and T = std::uint64_t:
\* `value < 0` is never true of an unsigned T.
pack_integer(buf, value) ==
  IF value.signed /\ SLess(value.bits, Zero)
    THEN pack_negative(buf, value.bits)
    ELSE pack_nonnegative(buf, value.bits)

\* pack_double: the prefix, then the IEEE-754 bit pattern as a uint64_t
pack_double(buf, as_integer) ==
  push_number_big_endian(push_back(buf, DOUBLE), as_integer, 8)

pack_bool(buf, value) ==
  IF value THEN push_back(buf, TRUE_) ELSE push_back(buf, FALSE_)

\* pack_str with `size <= 32` as its first test.
pack_str_wide_fix(buf, range) ==
  LET size == distance(range)
  IN IF ULeq(size, FromInt(32))
       THEN Returned(push(push_back(buf, BitOr(FIX_STR, Low8(size))), range))
     ELSE IF ULeq(size, UINT8_MAX)
       THEN Returned(push(push_back(push_back(buf, STR8), Low8(size)), range))
     ELSE IF ULeq(size, UINT16_MAX)
       THEN Returned(push(push_number_big_endian(push_back(buf, STR16),
                                                 Cast(size, 2), 2), range))
     ELSE IF ULeq(size, UINT32_MAX)
       THEN Returned(push(push_number_big_endian(push_back(buf, STR32),
                                                 Cast(size, 4), 4), range))
     ELSE Thrown(buf, make_overflow_message("string", size, UINT32_MAX))

pack_str(buf, range) ==
  LET size == distance(range)
  IN IF ULess(size, FromInt(32))
       THEN Returned(push(push_back(buf, BitOr(FIX_STR, Low8(size))), range))
     ELSE IF ULeq(size, UINT8_MAX)
       THEN Returned(push(push_back(push_back(buf, STR8), Low8(size)), range))
     ELSE IF ULeq(size, UINT16_MAX)
       THEN Returned(push(push_number_big_endian(push_back(buf, STR16),
                                                 Cast(size, 2), 2), range))
     ELSE IF ULeq(size, UINT32_MAX)
       THEN Returned(push(push_number_big_endian(push_back(buf, STR32),
                                                 Cast(size, 4), 4), range))
     ELSE Thrown(buf, make_overflow_message("string", size, UINT32_MAX))

pack_bin(buf, range) ==
  LET size == distance(range)
  IN IF ULeq(size, UINT8_MAX)
       THEN Returned(push(push_back(push_back(buf, BIN8), Low8(size)), range))
     ELSE IF ULeq(size, UINT16_MAX)
       THEN Returned(push(push_number_big_endian(push_back(buf, BIN16),
                                                 Cast(size, 2), 2), range))
     ELSE IF ULeq(size, UINT32_MAX)
       THEN Returned(push(push_number_big_endian(push_back(buf, BIN32),
                                                 Cast(size, 4), 4), range))
     ELSE Thrown(buf, make_overflow_message("binary", size, UINT32_MAX))

pack_array(buf, size) ==
  IF ULeq(size, FromInt(15))
    THEN Returned(push_back(buf, BitOr(FIX_ARRAY, Low8(size))))
  ELSE IF ULeq(size, UINT16_MAX)
    THEN Returned(push_number_big_endian(push_back(buf, ARRAY16),
                                         Cast(size, 2), 2))
  ELSE IF ULeq(size, UINT32_MAX)
    THEN Returned(push_number_big_endian(push_back(buf, ARRAY32),
                                         Cast(size, 4), 4))
  ELSE Thrown(buf, make_overflow_message("array", size, UINT32_MAX))

pack_map(buf, size) ==
  IF ULeq(size, FromInt(15))
    THEN Returned(push_back(buf, BitOr(FIX_MAP, Low8(size))))
  ELSE IF ULeq(size, UINT16_MAX)
    THEN Returned(push_number_big_endian(push_back(buf, MAP16),
                                         Cast(size, 2), 2))
  ELSE IF ULeq(size, UINT32_MAX)
    THEN Returned(push_number_big_endian(push_back(buf, MAP32),
                                         Cast(size, 4), 4))
  ELSE Thrown(buf, make_overflow_message("map", size, UINT32_MAX))

(***************************************************************************)
(* SpecPack: up to MaxCalls pack calls on one buffer, with arguments at    *)
(* and around every threshold of the encoder.  A call that throws ends the *)
(* sequence.                                                               *)
(***************************************************************************)
Pow32 == <<0, 0, 1, 0>>           \* 2^32

UnsignedInputs ==
  {FromInt(0), FromInt(1), FromInt(127), FromInt(128), FromInt(255),
   FromInt(256), FromInt(65535), FromInt(65536), FromInt(2147483647),
   <<0, 32768, 0, 0>>, UINT32_MAX, Pow32, <<65535, 65535, 65535, 32767>>,
   INT64_MIN, UINT64_MAX}

SignedInputs ==
  {FromInt(-1), FromInt(-32), FromInt(-33), FromInt(-128), FromInt(-129),
   FromInt(-32768), FromInt(-32769), INT32_MIN, Sub(INT32_MIN, One),
   INT64_MIN, FromInt(0), FromInt(127), FromInt(128),
   <<65535, 65535, 65535, 32767>>}

IntegerInputs ==
  {[signed |-> FALSE, bits |-> w] : w \in UnsignedInputs}
    \cup {[signed |-> TRUE, bits |-> w] : w \in SignedInputs}

DoubleInputs ==
  {Zero, <<0, 0, 0, 16368>>, <<0, 0, 0, 49156>>, <<1, 0, 0, 32760>>}

SizeInputs ==
  {FromInt(0), FromInt(1), FromInt(15), FromInt(16), FromInt(65535),
   FromInt(65536), UINT32_MAX, Pow32, UINT64_MAX}

RangeInputs ==
  {<<>>, <<B(192)>>, <<B(97), B(98)>>}
    \cup {<<Run(97, n)>> : n \in {FromInt(31), FromInt(32), FromInt(255),
                                  FromInt(256), FromInt(65535),
                                  FromInt(65536), UINT32_MAX, Pow32}}

\* A value handed to the encoder, as a decoder reports it: its kind, for an
\* integer its sign and bits, for a double its bits, for a header its count
\* (in bits), for a string or binary its bytes.
Value(kind, neg, bits, data) ==
  [kind |-> kind, neg |-> neg, bits |-> bits, data |-> data]

\* adjacent runs of the same byte joined: the byte string, whatever its runs
RECURSIVE Canon(_)
Canon(str) ==
  IF Len(str) <= 1 THEN str
  ELSE LET rest == Canon(Tail(str))
       IN IF Head(str).fill = Head(rest).fill
            THEN <<Run(Head(str).fill, Add(Head(str).count, Head(rest).count))>>
                   \o Tail(rest)
            ELSE <<Head(str)>> \o rest

MayCall ==
  /\ err = <<>>
  /\ Len(packed) < MaxCalls

Called(op, arg, buf, value) ==
  /\ call' = <<[op |-> op, arg |-> arg, pre |-> buffer]>>
  /\ buffer' = buf
  /\ packed' = Append(packed, value)
  /\ err' = <<>>
  /\ UNCHANGED segVars
  /\ UNCHANGED lookup
  /\ UNCHANGED urlVars

CalledMayThrow(op, arg, result, value) ==
  /\ call' = <<[op |-> op, arg |-> arg, pre |-> buffer]>>
  /\ buffer' = result.buf
  /\ packed' = IF result.thrown = <<>> THEN Append(packed, value) ELSE packed
  /\ err' = result.thrown
  /\ UNCHANGED segVars
  /\ UNCHANGED lookup
  /\ UNCHANGED urlVars

call_pack_nil ==
  /\ MayCall
  /\ Called("pack_nil", Zero, pack_nil(buffer), Value("nil", FALSE, Zero, <<>>))

call_pack_bool(value) ==
  /\ MayCall
  /\ Called("pack_bool", Zero, pack_bool(buffer, value),
            Value(IF value THEN "true" ELSE "false", FALSE, Zero, <<>>))

call_pack_integer(value) ==
  /\ MayCall
  /\ Called("pack_integer", value, pack_integer(buffer, value),
            Value("int", value.signed /\ IsNegative(value.bits), value.bits,
                  <<>>))

call_pack_double(as_integer) ==
  /\ MayCall
  /\ Called("pack_double", as_integer, pack_double(buffer, as_integer),
            Value("double", FALSE, as_integer, <<>>))

call_pack_str(range) ==
  /\ MayCall
  /\ CalledMayThrow("pack_str", range, pack_str(buffer, range),
                    Value("str", FALSE, Zero, Canon(range)))

call_pack_bin(range) ==
  /\ MayCall
  /\ CalledMayThrow("pack_bin", range, pack_bin(buffer, range),
                    Value("bin", FALSE, Zero, Canon(range)))

call_pack_array(size) ==
  /\ MayCall
  /\ CalledMayThrow("pack_array", size, pack_array(buffer, size),
                    Value("array", FALSE, size, <<>>))

call_pack_map(size) ==
  /\ MayCall
  /\ CalledMayThrow("pack_map", size, pack_map(buffer, size),
                    Value("map", FALSE, size, <<>>))

InitPack ==
  /\ \E local_root \in LocalRoots : spans = <<local_root>>
  /\ num_finished_spans = 0
  /\ sampling_decision = <<>>
  /\ mutex = 0
  /\ handles = <<Span(1)>>
  /\ pc = [t \in Threads |-> "idle"]
  /\ cur = [t \in Threads |-> 0]
  /\ pending = [t \in Threads |-> <<>>]
  /\ collector = <<>>
  /\ injected = <<>>
  /\ next_span_id = 2
  /\ notified = <<0>>
  /\ fresh_override = FALSE
  /\ lookup = <<>>
  /\ PackIdle
  /\ parsed = <<>>

NextPack ==
  \/ call_pack_nil
  \/ \E v \in BOOLEAN : call_pack_bool(v)
  \/ \E v \in IntegerInputs : call_pack_integer(v)
  \/ \E d \in DoubleInputs : call_pack_double(d)
  \/ \E r \in RangeInputs : call_pack_str(r)
  \/ \E r \in RangeInputs : call_pack_bin(r)
  \/ \E n \in SizeInputs : call_pack_array(n)
  \/ \E n \in SizeInputs : call_pack_map(n)

SpecPack == InitPack /\ [][NextPack]_vars

(***************************************************************************)
(* Properties of the encoder.  What the MessagePack format asks for is     *)
(* written out limb by limb and byte by byte, apart from the encoder's own *)
(* comparisons and shifts.                                                 *)
(***************************************************************************)
Hi(limb) == limb \div 256
Lo(limb) == limb % 256

AsBytes(numbers) == [i \in 1..Len(numbers) |-> B(numbers[i])]

Bytes2(w) == <<Hi(w[1]), Lo(w[1])>>
Bytes4(w) == <<Hi(w[2]), Lo(w[2])>> \o Bytes2(w)
Bytes8(w) == <<Hi(w[4]), Lo(w[4]), Hi(w[3]), Lo(w[3])>> \o Bytes4(w)

\* The narrowest MessagePack encoding of the integer whose two's-complement
\* bits are w, read as signed when `signed`.
NarrowestInteger(signed, w) ==
  IF signed /\ w[4] >= 32768
    THEN IF w[4] = 65535 /\ w[3] = 65535 /\ w[2] = 65535 /\ w[1] >= 65504
           THEN <<224 + (w[1] - 65504)>>
         ELSE IF w[4] = 65535 /\ w[3] = 65535 /\ w[2] = 65535 /\ w[1] >= 65408
           THEN <<208, w[1] - 65280>>
         ELSE IF w[4] = 65535 /\ w[3] = 65535 /\ w[2] = 65535 /\ w[1] >= 32768
           THEN <<209>> \o Bytes2(w)
         ELSE IF w[4] = 65535 /\ w[3] = 65535 /\ w[2] >= 32768
           THEN <<210>> \o Bytes4(w)
         ELSE <<211>> \o Bytes8(w)
    ELSE IF w[4] = 0 /\ w[3] = 0 /\ w[2] = 0 /\ w[1] <= 127
           THEN <<w[1]>>
         ELSE IF w[4] = 0 /\ w[3] = 0 /\ w[2] = 0 /\ w[1] <= 255
           THEN <<204, w[1]>>
         ELSE IF w[4] = 0 /\ w[3] = 0 /\ w[2] = 0
           THEN <<205>> \o Bytes2(w)
         ELSE IF w[4] = 0 /\ w[3] = 0
           THEN <<206>> \o Bytes4(w)
         ELSE <<207>> \o Bytes8(w)

LastCall(op) == call # <<>> /\ call[1].op = op

\* C7: pack_integer appends exactly the narrowest encoding of its argument,
\* the payload big-endian and of the width of the chosen type; 0x7F ->
\* [0x7F], 128 -> [0xCC, 0x80], -1 -> [0xFF], -33 -> [0xD0, 0xDF].
C7_NarrowestInteger ==
  LastCall("pack_integer") =>
    LET arg == call[1].arg
        out == SubSeq(buffer, Len(call[1].pre) + 1, Len(buffer))
    IN /\ buffer = call[1].pre \o AsBytes(NarrowestInteger(arg.signed, arg.bits))
       /\ arg.bits = <<127, 0, 0, 0>> => out = <<B(127)>>
       /\ arg.bits = <<128, 0, 0, 0>> => out = <<B(204), B(128)>>
       /\ (arg.signed /\ arg.bits = <<65535, 65535, 65535, 65535>>)
            => out = <<B(255)>>
       /\ (arg.signed /\ arg.bits = <<65503, 65535, 65535, 65535>>)
            => out = <<B(208), B(223)>>

C7_Witness ==
  /\ LastCall("pack_integer")
  /\ call[1].arg = [signed |-> TRUE, bits |-> FromInt(-32769)]
  /\ call[1].pre # <<>>
  /\ Len(buffer) = Len(call[1].pre) + 5

\* The narrowest header for `size` elements, for sizes below 2^32.
NarrowestHeader(op, size) ==
  LET small == size[2] = 0
      n == size[1]
  IN IF op = "pack_str"
       THEN IF small /\ n < 32 THEN <<160 + n>>
            ELSE IF small /\ n <= 255 THEN <<217, n>>
            ELSE IF small THEN <<218>> \o Bytes2(size)
            ELSE <<219>> \o Bytes4(size)
     ELSE IF op = "pack_bin"
       THEN IF small /\ n <= 255 THEN <<196, n>>
            ELSE IF small THEN <<197>> \o Bytes2(size)
            ELSE <<198>> \o Bytes4(size)
     ELSE IF op = "pack_array"
       THEN IF small /\ n <= 15 THEN <<144 + n>>
            ELSE IF small THEN <<220>> \o Bytes2(size)
            ELSE <<221>> \o Bytes4(size)
     ELSE IF small /\ n <= 15 THEN <<128 + n>>
          ELSE IF small THEN <<222>> \o Bytes2(size)
          ELSE <<223>> \o Bytes4(size)

SizedOps == {"pack_str", "pack_bin", "pack_array", "pack_map"}
RangeOps == {"pack_str", "pack_bin"}

\* the size a sized call was given
CallSize ==
  IF call[1].op \in RangeOps THEN distance(call[1].arg) ELSE call[1].arg

\* C8: for a size of at most 2^32-1, pack_str, pack_bin, pack_array and
\* pack_map append the narrowest header holding the size, big-endian, and
\* pack_str and pack_bin then append the range's bytes.
C8_NarrowestHeader ==
  (call # <<>> /\ call[1].op \in SizedOps
     /\ CallSize[3] = 0 /\ CallSize[4] = 0)
  => /\ err = <<>>
     /\ buffer = call[1].pre
                   \o AsBytes(NarrowestHeader(call[1].op, CallSize))
                   \o (IF call[1].op \in RangeOps THEN call[1].arg ELSE <<>>)

C8_Witness ==
  /\ LastCall("pack_str")
  /\ CallSize = FromInt(65536)
  /\ call[1].pre # <<>>
  /\ err = <<>>
  /\ Len(buffer) = Len(call[1].pre) + 6

KindOf(op) ==
  IF op = "pack_str" THEN "string"
  ELSE IF op = "pack_bin" THEN "binary"
  ELSE IF op = "pack_array" THEN "array"
  ELSE "map"

Decimal4294967295 == <<52, 50, 57, 52, 57, 54, 55, 50, 57, 53>>
Decimal4294967296 == <<52, 50, 57, 52, 57, 54, 55, 50, 57, 54>>

\* C9: pack_str, pack_bin, pack_array and pack_map throw exactly when the
\* size is above 2^32-1; the message then names the kind, the size in
\* decimal and the maximum 4294967295, and the buffer is as it was.
C9_OverflowReported ==
  (call # <<>> /\ call[1].op \in SizedOps)
  => /\ (err # <<>>) <=> (CallSize[3] # 0 \/ CallSize[4] # 0)
     /\ err # <<>> =>
          /\ err[1].type = KindOf(call[1].op)
          /\ CallSize = Pow32 => err[1].actual = Decimal4294967296
          /\ err[1].max = Decimal4294967295
          /\ buffer = call[1].pre

(***************************************************************************)
(* A MessagePack decoder, from the format's specification: it reads one    *)
(* object header (and, for str and bin, the payload) at a time.            *)
(***************************************************************************)
Failed == [ok |-> FALSE, value |-> Value("none", FALSE, Zero, <<>>), rest |-> <<>>]
Decoded(value, rest) == [ok |-> TRUE, value |-> value, rest |-> rest]

\* the stream without its first byte
DropByte(s) ==
  IF Head(s).count = One THEN Tail(s)
  ELSE <<Run(Head(s).fill, Sub(Head(s).count, One))>> \o Tail(s)

\* w * 256 + byte
ShiftIn(w, byte) ==
  LET t1 == w[1] * 256 + byte
      t2 == w[2] * 256 + t1 \div Limb
      t3 == w[3] * 256 + t2 \div Limb
      t4 == w[4] * 256 + t3 \div Limb
  IN <<t1 % Limb, t2 % Limb, t3 % Limb, t4 % Limb>>

\* an unsigned big-endian number of n bytes
RECURSIVE ReadBE(_, _, _)
ReadBE(s, n, acc) ==
  IF n = 0 THEN [ok |-> TRUE, bits |-> acc, rest |-> s]
  ELSE IF s = <<>> THEN [ok |-> FALSE, bits |-> Zero, rest |-> <<>>]
  ELSE ReadBE(DropByte(s), n - 1, ShiftIn(acc, Head(s).fill))

\* 2^(8n) for n < 8, and the n-byte two's-complement number as a 64-bit one
TwoTo8(n) ==
  IF n = 1 THEN <<256, 0, 0, 0>>
  ELSE IF n = 2 THEN <<0, 1, 0, 0>>
  ELSE <<0, 0, 1, 0>>

SignExtend(bits, n) ==
  IF n < 8 /\ ULeq(<<TwoTo8(n)[1] \div 2, TwoTo8(n)[2] \div 2,
                     TwoTo8(n)[3] \div 2, 0>>, bits)
    THEN Sub(bits, TwoTo8(n))
    ELSE bits

\* the next n bytes of the stream
RECURSIVE Take(_, _)
Take(s, n) ==
  IF n = Zero THEN [ok |-> TRUE, data |-> <<>>, rest |-> s]
  ELSE IF s = <<>> THEN [ok |-> FALSE, data |-> <<>>, rest |-> <<>>]
  ELSE IF ULeq(Head(s).count, n)
    THEN LET r == Take(Tail(s), Sub(n, Head(s).count))
         IN [ok |-> r.ok, data |-> <<Head(s)>> \o r.data, rest |-> r.rest]
  ELSE [ok |-> TRUE, data |-> <<Run(Head(s).fill, n)>>,
        rest |-> <<Run(Head(s).fill, Sub(Head(s).count, n))>> \o Tail(s)]

DecodeUnsigned(s, n) ==
  LET r == ReadBE(s, n, Zero)
  IN IF r.ok THEN Decoded(Value("int", FALSE, r.bits, <<>>), r.rest) ELSE Failed

DecodeSigned(s, n) ==
  LET r == ReadBE(s, n, Zero)
      v == SignExtend(r.bits, n)
  IN IF r.ok THEN Decoded(Value("int", IsNegative(v), v, <<>>), r.rest)
     ELSE Failed

DecodeCount(kind, s, n) ==
  LET r == ReadBE(s, n, Zero)
  IN IF r.ok THEN Decoded(Value(kind, FALSE, r.bits, <<>>), r.rest) ELSE Failed

DecodeBytes(kind, s, n) ==
  LET len == ReadBE(s, n, Zero)
      r == Take(len.rest, len.bits)
  IN IF len.ok /\ r.ok
       THEN Decoded(Value(kind, FALSE, Zero, Canon(r.data)), r.rest)
       ELSE Failed

DecodeOne(s) ==
  LET b == Head(s).fill
      t == DropByte(s)
  IN IF b <= 127 THEN Decoded(Value("int", FALSE, FromInt(b), <<>>), t)
     ELSE IF b <= 143 THEN Decoded(Value("map", FALSE, FromInt(b - 128), <<>>), t)
     ELSE IF b <= 159 THEN Decoded(Value("array", FALSE, FromInt(b - 144), <<>>), t)
     ELSE IF b <= 191 THEN DecodeBytes("str", <<B(b - 160)>> \o t, 1)
     ELSE IF b = 192 THEN Decoded(Value("nil", FALSE, Zero, <<>>), t)
     ELSE IF b = 194 THEN Decoded(Value("false", FALSE, Zero, <<>>), t)
     ELSE IF b = 195 THEN Decoded(Value("true", FALSE, Zero, <<>>), t)
     ELSE IF b = 196 THEN DecodeBytes("bin", t, 1)
     ELSE IF b = 197 THEN DecodeBytes("bin", t, 2)
     ELSE IF b = 198 THEN DecodeBytes("bin", t, 4)
     ELSE IF b = 202 THEN DecodeCount("float", t, 4)
     ELSE IF b = 203 THEN DecodeCount("double", t, 8)
     ELSE IF b = 204 THEN DecodeUnsigned(t, 1)
     ELSE IF b = 205 THEN DecodeUnsigned(t, 2)
     ELSE IF b = 206 THEN DecodeUnsigned(t, 4)
     ELSE IF b = 207 THEN DecodeUnsigned(t, 8)
     ELSE IF b = 208 THEN DecodeSigned(t, 1)
     ELSE IF b = 209 THEN DecodeSigned(t, 2)
     ELSE IF b = 210 THEN DecodeSigned(t, 4)
     ELSE IF b = 211 THEN DecodeSigned(t, 8)
     ELSE IF b = 217 THEN DecodeBytes("str", t, 1)
     ELSE IF b = 218 THEN DecodeBytes("str", t, 2)
     ELSE IF b = 219 THEN DecodeBytes("str", t, 4)
     ELSE IF b = 220 THEN DecodeCount("array", t, 2)
     ELSE IF b = 221 THEN DecodeCount("array", t, 4)
     ELSE IF b = 222 THEN DecodeCount("map", t, 2)
     ELSE IF b = 223 THEN DecodeCount("map", t, 4)
     ELSE IF b >= 224 THEN Decoded(Value("int", TRUE, FromInt(b - 256), <<>>), t)
     ELSE Failed

RECURSIVE DecodeAll(_)
DecodeAll(s) ==
  IF s = <<>> THEN [ok |-> TRUE, values |-> <<>>]
  ELSE LET first == DecodeOne(s)
       IN IF ~first.ok THEN [ok |-> FALSE, values |-> <<>>]
          ELSE LET others == DecodeAll(first.rest)
               IN [ok |-> others.ok,
                   values |-> <<first.value>> \o others.values]

\* C10: a MessagePack decoder reading the buffer from its start recovers the
\* values of the successful pack calls, in order, and ends exactly at the
\* buffer's end.
C10_RoundTrip ==
  /\ DecodeAll(buffer).ok
  /\ DecodeAll(buffer).values = packed

C10_Witness ==
  /\ Len(packed) = 2
  /\ packed[1].kind = "str" /\ packed[1].data = <<Run(97, FromInt(65536))>>
  /\ packed[2].kind = "int" /\ packed[2].neg
  /\ DecodeAll(buffer).values = packed

(***************************************************************************)
(* Properties of the segment                                               *)
(***************************************************************************)
Owners(i) ==
  {h \in 1..Len(handles) : handles[h].data = i /\ handles[h].trace_segment}

AllDestroyed ==
  /\ \A t \in Threads : pc[t] = "idle"
  /\ \A h \in 1..Len(handles) :
       handles[h].trace_segment => handles[h].st = "destroyed"

\* C1: whatever the interleaving of create_child and Span destructions, the
\* collector receives at most one batch, the batch holds every span ever
\* registered (one per handle that was given the segment), and once every
\* handle is destroyed the batch has been received.
C1_ExactlyOneBatch ==
  /\ Len(collector) <= 1
  /\ \A b \in 1..Len(collector) :
       /\ Len(collector[b]) = Len(spans)
       /\ Len(collector[b]) =
            Cardinality({h \in 1..Len(handles) : handles[h].trace_segment})
  /\ AllDestroyed => Len(collector) = 1

C1_Witness ==
  /\ Len(collector) = 1
  /\ Len(collector[1]) >= 2
  /\ AllDestroyed

\* C3: num_finished_spans never exceeds spans.size(); the two are equal
\* exactly when the segment is being or has been handed to the collector,
\* and then no live handle holding the segment remains.
C3_FinishedAtMostRegistered ==
  /\ num_finished_spans <= Len(spans)
  /\ (num_finished_spans = Len(spans))
       <=> (Len(collector) = 1 \/ \E t \in Threads : pc[t] = "send")
  /\ num_finished_spans = Len(spans) =>
       /\ \A h \in 1..Len(handles) :
            ~(handles[h].st = "live" /\ handles[h].trace_segment)
       /\ \A t \in Threads : pending[t] = <<>>

C3_Witness ==
  /\ num_finished_spans = Len(spans)
  /\ Len(spans) >= 2
  /\ Len(collector) = 1
  /\ \E h \in 1..Len(handles) :
       handles[h].st = "live" /\ ~handles[h].trace_segment

C4_Inv ==
  \A i \in 1..Len(spans) :
    /\ notified[i] <= 1
    /\ Cardinality(Owners(i)) = 1
    /\ \A h \in Owners(i) :
         /\ handles[h].st = "destroyed" => notified[i] = 1
         /\ handles[h].st = "live" => notified[i] = 0

C4_Act ==
  \A h \in 1..Len(handles) :
    (/\ handles[h].st = "live"
     /\ ~handles[h].trace_segment
     /\ handles'[h].st # "live")
    => /\ handles'[h].st = "destroyed"
       /\ UNCHANGED <<spans, num_finished_spans, notified, collector, pc>>

\* C4: destroying a moved-from handle writes no duration and calls no
\* span_finished, and span_finished is called exactly once for each
\* registered span: by the destruction of the one handle that holds the
\* segment pointer for it.
C4_FinishedOncePerSpan == []C4_Inv /\ [][C4_Act]_vars

C4_Witness ==
  \E h, g \in 1..Len(handles) :
    /\ handles[h].data = handles[g].data
    /\ ~handles[h].trace_segment /\ handles[h].st = "destroyed"
    /\ handles[g].trace_segment /\ handles[g].st = "destroyed"
    /\ notified[handles[g].data] = 1

\* C2: no SpanData of the segment is written while another thread holds the
\* segment's mutex and reads the spans (the visitor of visit_spans).
C2_NoWriteDuringVisit ==
  [][(\E t \in Threads : pc[t] = "visit_spans") => spans' = spans]_vars

C6_Inv ==
  (injected # <<>> /\ injected[1].after_fresh_override)
    => injected[1].priority = 2

C6_Act ==
  sampling_decision # <<>> =>
    /\ sampling_decision' # <<>>
    /\ sampling_decision' # sampling_decision =>
         sampling_decision'[1].mechanism = "manual"

\* C6: every injection made after override_sampling_priority(2) on a segment
\* without a decision reports priority 2, and a decision that exists is
\* never replaced by one the sampler makes.
C6_OverrideIsReported == []C6_Inv /\ [][C6_Act]_vars

C6_Witness ==
  /\ injected # <<>>
  /\ injected[1].after_fresh_override
  /\ injected[1].priority = 2
  /\ num_finished_spans >= 1

SpanIds == {spans[i].span_id : i \in 1..Len(spans)}

PendingIds(others) == {pending[t][1].span_id : t \in {u \in others : pending[u] # <<>>}}

C14_Inv ==
  /\ \A i \in 1..Len(spans) : spans[i].trace_id = spans[1].trace_id
  /\ \A i \in 2..Len(spans) :
       \E j \in 1..(i - 1) : spans[i].parent_id = spans[j].span_id
  /\ \A i, j \in 1..Len(spans) :
       i # j => spans[i].span_id # spans[j].span_id

C14_Act ==
  \A t \in Threads :
    /\ (pc[t] = "idle" /\ pc'[t] = "register_span") =>
         LET parent == spans[handles[cur'[t]].data]
             child == pending'[t][1]
         IN /\ child.trace_id = parent.trace_id
            /\ child.parent_id = parent.span_id
            /\ child.span_id = next_span_id /\ next_span_id' # next_span_id
            /\ child.span_id \notin SpanIds \cup PendingIds(Threads \ {t})
            /\ spans' = spans
    /\ (pc[t] = "register_span" /\ pc'[t] = "idle") =>
         /\ Len(spans') = Len(spans) + 1
         /\ SubSeq(spans', 1, Len(spans)) = spans
         /\ spans'[Len(spans')] = pending[t][1]
         /\ spans'[Len(spans')].parent_id =
              spans[handles[cur[t]].data].span_id

\* C14: all spans of a segment have the same trace_id; a span registered
\* through create_child has the span_id of the handle it was created from
\* as its parent_id, a span already in the segment, and a span_id no other
\* span has; create_child leaves every registered SpanData as it was and
\* appends exactly one span.
C14_ChildIds == []C14_Inv /\ [][C14_Act]_vars

C14_Witness ==
  /\ Len(spans) = 2
  /\ spans[2].trace_id = spans[1].trace_id
  /\ spans[2].parent_id = spans[1].span_id
  /\ spans[2].span_id # spans[1].span_id
  /\ KeyA \in DOMAIN spans[1].tags

\* The durations a finished span may have.
FinalDurations(data) == {tick - data.start : tick \in EndTimes \cup ClockTicks}

C15_Inv ==
  /\ \A i \in 1..Len(spans) :
       notified[i] >= 1 => spans[i].duration \in FinalDurations(spans[i])
  /\ \A t \in Threads :
       pc[t] = "span_finished" =>
         LET data == spans[handles[cur[t]].data]
         IN data.duration \in FinalDurations(data)
  /\ num_finished_spans <=
       Cardinality({i \in 1..Len(spans) :
                      spans[i].duration \in FinalDurations(spans[i])})
  /\ \A b \in 1..Len(collector) : \A i \in 1..Len(collector[b]) :
       /\ collector[b][i].duration \in FinalDurations(collector[b][i])
       /\ collector[b][i].duration = spans[i].duration

C15_Act ==
  /\ \A h \in 1..Len(handles) :
       (handles[h].st = "live" /\ handles'[h].st = "destroying") =>
         LET d == handles[h].data
         IN /\ IF handles[h].end_time # <<>>
                 THEN spans'[d].duration =
                        handles[h].end_time[1] - spans[d].start
                 ELSE \E now \in ClockTicks :
                        spans'[d].duration = now - spans[d].start
            /\ notified' = notified
            /\ num_finished_spans' = num_finished_spans
  /\ \A i \in 1..Len(spans) :
       notified[i] >= 1 => spans'[i].duration = spans[i].duration

\* C15: destroying a live handle writes the span's duration, end_time -
\* start when set_end_time was called and else the clock's tick - start,
\* before span_finished counts the span; so every span counted, and every
\* span of the batch the collector receives, has its final duration.
C15_DurationBeforeFinish == []C15_Inv /\ [][C15_Act]_vars

C15_Witness ==
  /\ Len(collector) = 1
  /\ Len(collector[1]) = 2
  /\ \E e \in EndTimes : collector[1][1].duration = e - collector[1][1].start
  /\ \E now \in ClockTicks :
       collector[1][2].duration = now - collector[1][2].start

(***************************************************************************)
(* HTTPClient::URL::parse.  A StringView is the sequence of its            *)
(* characters; an iterator is a position in it, Len + 1 being end().       *)
(***************************************************************************)
separator == <<":", "/", "/">>

Http == <<"h", "t", "t", "p">>
Https == <<"h", "t", "t", "p", "s">>
Unix == <<"u", "n", "i", "x">>
HttpUnix == <<"h", "t", "t", "p", "+", "u", "n", "i", "x">>
HttpsUnix == <<"h", "t", "t", "p", "s", "+", "u", "n", "i", "x">>

supported == <<Http, Https, Unix, HttpUnix, HttpsUnix>>

\* std::search(first, last, s_first, s_last), from position i on
RECURSIVE search(_, _, _)
search(haystack, needle, i) ==
  IF i + Len(needle) - 1 > Len(haystack) THEN Len(haystack) + 1
  ELSE IF SubSeq(haystack, i, i + Len(needle) - 1) = needle THEN i
  ELSE search(haystack, needle, i + 1)

\* std::find with the last match in place of the first
find_last(sequence, value, i) ==
  LET matches == {j \in i..Len(sequence) : sequence[j] = value}
  IN IF matches = {} THEN Len(sequence) + 1
     ELSE CHOOSE j \in matches : \A k \in matches : k <= j

\* std::find(first, last, value), from position i on
RECURSIVE find(_, _, _)
find(sequence, value, i) ==
  IF i > Len(sequence) THEN Len(sequence) + 1
  ELSE IF sequence[i] = value THEN i
  ELSE find(sequence, value, i + 1)

\* range(begin, end): the characters from begin up to, not including, end
range(input, begin, end) == SubSeq(input, begin, end - 1)

URL(scheme, authority, path) ==
  [scheme |-> scheme, authority |-> authority, path |-> path]

\* Error{code, message}; the message is kept as the parts appended to it
Error(code, message) == [code |-> code, message |-> message]

\* Expected<URL>: either the URL or the Error
Value_(url) == [ok |-> TRUE, value |-> url]
Unexpected(error) == [ok |-> FALSE, error |-> error]

\* lines 32-35: " " and each supported scheme in turn
supported_list ==
  [i \in 1..(2 * Len(supported)) |->
     IF i % 2 = 1 THEN " " ELSE supported[i \div 2]]

missing_separator_message(input) ==
  <<"Datadog Agent URL is missing the \"://\" separator: \"", input, "\"">>

unsupported_scheme_message(scheme, input) ==
  <<"Unsupported URI scheme \"", scheme, "\" in Datadog Agent URL \"", input,
    "\". The following are supported:">> \o supported_list

not_absolute_message(authority_and_path, input) ==
  <<"Unix domain socket paths for Datadog Agent must be absolute, i.e. must begin with a \"/\". The path \"",
    authority_and_path, "\" is not absolute. Error occurred for URL: \"",
    input, "\"">>

\* HTTPClient::URL::parse testing only the scheme "unix" at line 49
parse_unix_only(input) ==
  LET after_scheme == search(input, separator, 1)
  IN IF after_scheme = Len(input) + 1
       THEN Unexpected(Error("URL_MISSING_SEPARATOR",
                             missing_separator_message(input)))
       ELSE
         LET scheme == range(input, 1, after_scheme)
             found == find(supported, scheme, 1)
         IN IF found = Len(supported) + 1
              THEN Unexpected(Error("URL_UNSUPPORTED_SCHEME",
                                    unsupported_scheme_message(scheme, input)))
              ELSE
                LET authority_and_path ==
                      range(input, after_scheme + Len(separator),
                            Len(input) + 1)
                IN IF scheme = Unix
                     THEN IF \/ authority_and_path = <<>>
                             \/ authority_and_path[1] # "/"
                            THEN Unexpected(Error(
                                   "URL_UNIX_DOMAIN_SOCKET_PATH_NOT_ABSOLUTE",
                                   not_absolute_message(authority_and_path,
                                                        input)))
                            ELSE Value_(URL(scheme, authority_and_path, <<>>))
                     ELSE
                       LET after_authority == find(authority_and_path, "/", 1)
                       IN Value_(URL(scheme,
                                     range(authority_and_path, 1,
                                           after_authority),
                                     range(authority_and_path, after_authority,
                                           Len(authority_and_path) + 1)))

\* HTTPClient::URL::parse
parse(input) ==
  LET after_scheme == search(input, separator, 1)
  IN IF after_scheme = Len(input) + 1
       THEN Unexpected(Error("URL_MISSING_SEPARATOR",
                             missing_separator_message(input)))
       ELSE
         LET scheme == range(input, 1, after_scheme)
             found == find(supported, scheme, 1)
         IN IF found = Len(supported) + 1
              THEN Unexpected(Error("URL_UNSUPPORTED_SCHEME",
                                    unsupported_scheme_message(scheme, input)))
              ELSE
                LET authority_and_path ==
                      range(input, after_scheme + Len(separator),
                            Len(input) + 1)
                IN IF scheme = Unix \/ scheme = HttpUnix \/ scheme = HttpsUnix
                     THEN IF \/ authority_and_path = <<>>
                             \/ authority_and_path[1] # "/"
                            THEN Unexpected(Error(
                                   "URL_UNIX_DOMAIN_SOCKET_PATH_NOT_ABSOLUTE",
                                   not_absolute_message(authority_and_path,
                                                        input)))
                            ELSE Value_(URL(scheme, authority_and_path, <<>>))
                     ELSE
                       LET after_authority == find(authority_and_path, "/", 1)
                       IN Value_(URL(scheme,
                                     range(authority_and_path, 1,
                                           after_authority),
                                     range(authority_and_path, after_authority,
                                           Len(authority_and_path) + 1)))

(***************************************************************************)
(* SpecUrl: URL::parse called on texts made of a scheme-like part, a       *)
(* separator-like part and a remainder.                                    *)
(***************************************************************************)
SchemeTexts ==
  {<<"h", "t", "t", "p">>,
   <<"h", "t", "t", "p", "s">>,
   <<"u", "n", "i", "x">>,
   <<"h", "t", "t", "p", "+", "u", "n", "i", "x">>,
   <<"h", "t", "t", "p", "s", "+", "u", "n", "i", "x">>,
   <<"f", "t", "p">>,
   <<>>,
   <<"H", "T", "T", "P">>,
   <<"h", "t", "t">>,
   <<"u", "n", "i", "x", "s">>,
   <<"u", "n", "i", "x", "+", "h", "t", "t", "p">>}

SeparatorTexts ==
  {<<":", "/", "/">>,
   <<":", "/">>,
   <<>>}

RemainderTexts ==
  {<<>>,
   <<"/">>,
   <<"x">>,
   <<"/", "x">>,
   <<"x", "/", "y">>,
   <<"x", ":", "1", "/", "p", "/", "q">>,
   <<"l", "o", "c", "a", "l", "h", "o", "s", "t", ":", "8", "1", "2", "6">>,
   <<"/", "v", "a", "r", "/", "r", "u", "n", "/", "d", "a", "t", "a", "d", "o", "g", "/", "a", "p", "m", ".", "s", "o", "c", "k">>,
   <<"x", ":", "/", "/", "y">>,
   <<"/", "/">>}

UrlInputs ==
  {s \o p \o r : s \in SchemeTexts, p \in SeparatorTexts, r \in RemainderTexts}

\* a call of HTTPClient::URL::parse; the input and the result are recorded
URL_parse(input) ==
  /\ parsed' = <<[input |-> input, result |-> parse(input)]>>
  /\ UNCHANGED segVars
  /\ UNCHANGED lookup
  /\ UNCHANGED packVars

InitUrl ==
  /\ \E local_root \in LocalRoots : spans = <<local_root>>
  /\ num_finished_spans = 0
  /\ sampling_decision = <<>>
  /\ mutex = 0
  /\ handles = <<Span(1)>>
  /\ pc = [t \in Threads |-> "idle"]
  /\ cur = [t \in Threads |-> 0]
  /\ pending = [t \in Threads |-> <<>>]
  /\ collector = <<>>
  /\ injected = <<>>
  /\ next_span_id = 2
  /\ notified = <<0>>
  /\ fresh_override = FALSE
  /\ lookup = <<>>
  /\ PackIdle
  /\ parsed = <<>>

NextUrl == \E input \in UrlInputs : URL_parse(input)

SpecUrl == InitUrl /\ [][NextUrl]_vars

(***************************************************************************)
(* Properties of URL::parse, stated on the text itself                     *)
(***************************************************************************)
SeparatorPositions(s) ==
  {i \in 1..Len(s) :
     i + 2 <= Len(s) /\ s[i] = ":" /\ s[i + 1] = "/" /\ s[i + 2] = "/"}

Least(S) == CHOOSE i \in S : \A j \in S : i <= j

\* the text before the first "://" and the text after it
SchemeOf(s) == SubSeq(s, 1, Least(SeparatorPositions(s)) - 1)
RemainderOf(s) == SubSeq(s, Least(SeparatorPositions(s)) + 3, Len(s))

SupportedSchemes == {Http, Https, Unix, HttpUnix, HttpsUnix}
UnixFamily == {Unix, HttpUnix, HttpsUnix}

SlashPositions(r) == {i \in 1..Len(r) : r[i] = "/"}

BeforeFirstSlash(r) ==
  IF SlashPositions(r) = {} THEN r
  ELSE SubSeq(r, 1, Least(SlashPositions(r)) - 1)

FromFirstSlash(r) ==
  IF SlashPositions(r) = {} THEN <<>>
  ELSE SubSeq(r, Least(SlashPositions(r)), Len(r))

ExpectedError(s) ==
  IF SeparatorPositions(s) = {} THEN "URL_MISSING_SEPARATOR"
  ELSE IF SchemeOf(s) \notin SupportedSchemes THEN "URL_UNSUPPORTED_SCHEME"
  ELSE IF /\ SchemeOf(s) \in UnixFamily
          /\ (RemainderOf(s) = <<>> \/ RemainderOf(s)[1] # "/")
    THEN "URL_UNIX_DOMAIN_SOCKET_PATH_NOT_ABSOLUTE"
  ELSE "none"

\* C11: URL::parse returns an error and no URL exactly when the input has
\* no "://" (URL_MISSING_SEPARATOR), else when the text before the first
\* "://" is not a supported scheme (URL_UNSUPPORTED_SCHEME), else when the
\* scheme is of the unix family and the remainder is empty or does not begin
\* with "/" (URL_UNIX_DOMAIN_SOCKET_PATH_NOT_ABSOLUTE); every other input
\* parses successfully.
C11_ParseErrors ==
  parsed # <<>> =>
    LET result == parsed[1].result
        expected == ExpectedError(parsed[1].input)
    IN IF expected = "none"
         THEN result.ok
         ELSE ~result.ok /\ result.error.code = expected

C11_Witness ==
  /\ parsed # <<>>
  /\ parsed[1].input = HttpUnix \o separator \o <<"x">>
  /\ ~parsed[1].result.ok
  /\ parsed[1].result.error.code = "URL_UNIX_DOMAIN_SOCKET_PATH_NOT_ABSOLUTE"

\* C12 as stated: on success the scheme is the text before the first "://";
\* for the unix family the authority is the whole remainder and the path is
\* empty; for http and https the authority is the remainder up to the first
\* "/" and the path is empty whatever follows the authority.
C12_PathIgnored ==
  (parsed # <<>> /\ parsed[1].result.ok) =>
    LET url == parsed[1].result.value
        input == parsed[1].input
    IN /\ url.scheme = SchemeOf(input)
       /\ IF url.scheme \in UnixFamily
            THEN url.authority = RemainderOf(input) /\ url.path = <<>>
            ELSE /\ url.authority = BeforeFirstSlash(RemainderOf(input))
                 /\ url.path = <<>>

\* C12 amended: as above, but for http and https the path is the remainder
\* from its first "/" on, and empty only when the remainder has no "/".
C12_PathReturned ==
  (parsed # <<>> /\ parsed[1].result.ok) =>
    LET url == parsed[1].result.value
        input == parsed[1].input
    IN /\ url.scheme = SchemeOf(input)
       /\ IF url.scheme \in UnixFamily
            THEN url.authority = RemainderOf(input) /\ url.path = <<>>
            ELSE /\ url.authority = BeforeFirstSlash(RemainderOf(input))
                 /\ url.path = FromFirstSlash(RemainderOf(input))

C12_Witness ==
  /\ parsed # <<>>
  /\ parsed[1].input = Http \o separator \o <<"x", ":", "1", "/", "p", "/", "q">>
  /\ parsed[1].result.ok
  /\ parsed[1].result.value.authority = <<"x", ":", "1">>
  /\ parsed[1].result.value.path = <<"/", "p", "/", "q">>

====
